---- MODULE Spec2Model ----
(***************************************************************************)
(* Model of src/pipelines/cust_etl/pipeline.py: the SpecForge analytics    *)
(* ETL (users/projects -> mask -> join -> aggregate -> overwrite target).  *)
(*                                                                         *)
(* A DataFrame is a lazy query plan: the functions of pipeline.py build    *)
(* plans, and only the actions they call (count(), write.jdbc) scan the    *)
(* source tables.  The transforms are therefore operators over table       *)
(* contents, applied to the contents a scan finds at the time of the       *)
(* action.  Strings are sequences of one-character strings.                *)
(* F.substring is taken with the signature that accepts a Column length    *)
(* (pyspark >= 4.0), as the call on lines 94-98 requires.                  *)
(***************************************************************************)
EXTENDS Integers, Sequences, FiniteSets, Bags, TLC

\* ------------------------------------------------------------------ bounds
MaxUsers == 2
MaxProjects == 3
MaxEmailLen == 3
MaxChanges == 1

\* ------------------------------------------------------------- data domain
\* SQL NULL in the nullable integer column projects.user_id, a value outside
\* the id range; a comparison with it is never true.
NullId == 0

UserIds == 1..MaxUsers
ProjectIds == 1..MaxProjects
\* An owner id may be NULL, a user id, or an id no user has.
OwnerIds == {NullId} \cup (1..(MaxUsers + 1))

Chars == {"a", "@"}
Strings == UNION {[1..n -> Chars] : n \in 0..MaxEmailLen}
\* SQL NULL in the string column users.email, which the code does not exclude:
\* a value that is no string over Chars.
NullEmail == <<"NULL">>
Emails == Strings \cup {NullEmail}

\* A table and a DataFrame are bags of rows: neither the reads nor the
\* transforms of pipeline.py exclude equal rows or a repeated id.
Range(s) == {s[i] : i \in DOMAIN s}
SeqToBag(s) == [r \in Range(s) |-> Cardinality({i \in DOMAIN s : s[i] = r})]
\* The bags of at most n rows drawn from the given rows.
BagsOver(rows, n) ==
    {SeqToBag(s) : s \in UNION {[1..k -> rows] : k \in 0..n}}

\* The rows of bag B that are in S, with their numbers of copies.
Restrict(B, S) == [r \in S \cap BagToSet(B) |-> CopiesIn(r, B)]

\* public.users (id, email) with every id at most once.
UsersTables ==
    {SetToBag({[id |-> i, email |-> f[i]] : i \in DOMAIN f}) :
        f \in UNION {[S -> Emails] : S \in SUBSET UserIds}}

\* public.projects (id, user_id) with every id at most once, user_id
\* nullable.
ProjectsTables ==
    {SetToBag({[id |-> i, user_id |-> f[i]] : i \in DOMAIN f}) :
        f \in UNION {[S -> OwnerIds] : S \in SUBSET ProjectIds}}

\* --------------------------------------------------------- SQL expressions
\* INSTR(str, substr): 1-based position of the first occurrence, 0 if none.
RECURSIVE InstrFrom(_, _, _)
InstrFrom(s, c, i) ==
    IF i > Len(s) THEN 0
    ELSE IF s[i] = c THEN i
    ELSE InstrFrom(s, c, i + 1)

Instr(s, c) == InstrFrom(s, c, 1)

\* substring(str, pos, len): positions are 1-based, pos 0 is the first
\* character, a negative pos counts from the end; an empty or negative range
\* gives the empty string.
Substring(s, pos, len) ==
    LET start == IF pos > 0 THEN pos - 1
                 ELSE IF pos < 0 THEN Len(s) + pos ELSE 0
        until == start + len
        from  == IF start < 0 THEN 0 ELSE start
        to    == IF until > Len(s) THEN Len(s) ELSE until
    IN  IF until <= start \/ start >= Len(s) THEN <<>>
        ELSE SubSeq(s, from + 1, to)

MaskSuffix == <<"@", "*", "*", "*", ".", "c", "o", "m">>

\* concat(substring(email, 1, INSTR(email, '@') - 1), '@***.com').
\* INSTR, substring and concat each give NULL for a NULL argument.
MaskedEmailMutOffByOne(email) ==
    IF email = NullEmail THEN NullEmail
    ELSE Substring(email, 1, Instr(email, "@")) \o MaskSuffix

MaskedEmailMutNoAtKeepsAll(email) ==
    IF email = NullEmail THEN NullEmail
    ELSE IF Instr(email, "@") = 0 THEN email \o MaskSuffix
    ELSE Substring(email, 1, Instr(email, "@") - 1) \o MaskSuffix

MaskedEmail(email) ==
    IF email = NullEmail THEN NullEmail
    ELSE Substring(email, 1, Instr(email, "@") - 1) \o MaskSuffix

\* IntegerType cast of the 64-bit count.  It keeps every value of the 32-bit
\* signed range, which is the range of the model's integers: a group of the
\* model has at most MaxUsers * MaxProjects rows.
CastInteger(n) == n

\* ----------------------------------------------------------- the DataFrames
\* read_source_users: select(id, email) over public.users.
SelectUsers(u) == BagOfAll(LAMBDA r : [id |-> r.id, email |-> r.email], u)

\* read_source_projects: select(id AS project_id, user_id AS p_user_id).
SelectProjects(p) ==
    BagOfAll(LAMBDA r : [project_id |-> r.id, p_user_id |-> r.user_id], p)

\* apply_expression_mask_data: user_id = id, MASKED_EMAIL, select both.
ApplyExpressionMaskData(dfUsers) ==
    BagOfAll(LAMBDA r : [user_id |-> r.id,
                         MASKED_EMAIL |-> MaskedEmail(r.email)], dfUsers)

\* The pairs of a row of each side that satisfy user_id = p_user_id (never
\* true for a NULL p_user_id), one pair per pair of copies.
JoinPairs(dfMasked, dfProjects) ==
    [y \in {x \in BagToSet(dfMasked) \X BagToSet(dfProjects) :
                x[2].p_user_id # NullId /\ x[1].user_id = x[2].p_user_id} |->
        CopiesIn(y[1], dfMasked) * CopiesIn(y[2], dfProjects)]

\* apply_joiner_user_projects: inner join on user_id = p_user_id, then
\* select(user_id, MASKED_EMAIL, project_id); no row is deduplicated.
JoinerMutLeftOuter(dfMasked, dfProjects) ==
    BagOfAll(LAMBDA y : [user_id |-> y[1].user_id,
                         MASKED_EMAIL |-> y[1].MASKED_EMAIL,
                         project_id |-> y[2].project_id],
             JoinPairs(dfMasked, dfProjects))
    (+)
    BagOfAll(LAMBDA m : [user_id |-> m.user_id,
                         MASKED_EMAIL |-> m.MASKED_EMAIL,
                         project_id |-> NullId],
             Restrict(dfMasked,
                      {m \in BagToSet(dfMasked) :
                        \A p \in BagToSet(dfProjects) :
                            p.p_user_id # m.user_id}))

ApplyJoinerUserProjects(dfMasked, dfProjects) ==
    BagOfAll(LAMBDA y : [user_id |-> y[1].user_id,
                         MASKED_EMAIL |-> y[1].MASKED_EMAIL,
                         project_id |-> y[2].project_id],
             JoinPairs(dfMasked, dfProjects))

\* apply_aggregator_project_count: groupBy(user_id, MASKED_EMAIL),
\* count(project_id) counts the rows of the group whose project_id is not
\* null, equal rows included.
GroupKeys(dfJoined) ==
    {[user_id |-> j.user_id, MASKED_EMAIL |-> j.MASKED_EMAIL] :
        j \in BagToSet(dfJoined)}

GroupRows(dfJoined, k) ==
    Restrict(dfJoined,
             {j \in BagToSet(dfJoined) :
                j.user_id = k.user_id /\ j.MASKED_EMAIL = k.MASKED_EMAIL})

AggregatorMutCountDistinct(dfJoined) ==
    SetToBag(
        {[USER_ID |-> k.user_id, MASKED_EMAIL |-> k.MASKED_EMAIL,
          TOTAL_PROJECTS |->
            CastInteger(Cardinality(
                {j.project_id : j \in BagToSet(GroupRows(dfJoined, k))}
                    \ {NullId}))] :
            k \in GroupKeys(dfJoined)})

ApplyAggregatorProjectCount(dfJoined) ==
    SetToBag(
        {[USER_ID |-> k.user_id, MASKED_EMAIL |-> k.MASKED_EMAIL,
          TOTAL_PROJECTS |->
            CastInteger(BagCardinality(
                Restrict(GroupRows(dfJoined, k),
                         {j \in BagToSet(dfJoined) :
                            j.project_id # NullId})))] :
            k \in GroupKeys(dfJoined)})

\* The plan of df_aggregated evaluated over given table contents.
EvalAggregated(u, p) ==
    ApplyAggregatorProjectCount(
        ApplyJoinerUserProjects(
            ApplyExpressionMaskData(SelectUsers(u)), SelectProjects(p)))

EvalJoined(u, p) ==
    ApplyJoinerUserProjects(
        ApplyExpressionMaskData(SelectUsers(u)), SelectProjects(p))

\* ------------------------------------------------------------------- state
Runs == {1, 2}

VARIABLES
    users,            \* contents of public.users
    projects,         \* contents of public.projects
    dest,             \* public.USER_PROJECT_ANALYTICS: [exists, rows (a bag)]
    dest0,            \* what the destination held before any run started
    changes,          \* number of source changes made so far
    pc,               \* pc[r]: the statement run r is at
    engine,           \* engine[r]: "none", "started", "stopped"
    outcome,          \* outcome[r]: "running", "success" or "failure"
    failedAt,         \* failedAt[r]: the first statement that raised, or "none"
    log,              \* log[r]: the stages whose action ran, in order
    counted,          \* counted[r]: the record counts logged, in order
    usersAtRead,      \* usersAtRead[r]: users as scanned by read_source_users
    projectsAtRead,   \* projectsAtRead[r]: same, by read_source_projects
    scanUsers,        \* scanUsers[r]: users as the current job scanned it
    scanProjects,     \* scanProjects[r]: projects as the current job scanned it
    scanned,          \* scanned[r]: the tables the current job has scanned
    aggregated,       \* aggregated[r]: the rows the sink write computed
    pending,          \* pending[r]: rows of aggregated[r] not yet inserted
    lastWriter,       \* the run whose sink write returned last, 0 if none
    tstage,           \* transform chain: the next transform to apply
    df_users, df_projects, df_masked, df_joined, df_aggregated,
    df_masked_again   \* the masking expression applied a second time

srcvars == <<users, projects, changes>>
scanvars == <<scanUsers, scanProjects, scanned>>
runvars == <<pc, engine, outcome, failedAt, log, counted, usersAtRead,
             projectsAtRead, scanvars, aggregated, pending>>
tvars == <<tstage, df_users, df_projects, df_masked, df_joined, df_aggregated,
           df_masked_again>>
vars == <<srcvars, dest, dest0, lastWriter, runvars, tvars>>

NoTable == [exists |-> FALSE, rows |-> EmptyBag]
Table(rows) == [exists |-> TRUE, rows |-> rows]

\* Source contents of the pipeline runs: an email with '@', one without, NULL;
\* a run starts from one of a few tables and other clients change them.
EmailWithAt == <<"a", "@", "a">>
EmailNoAt == <<"a">>
RunEmails == {EmailWithAt, EmailNoAt, NullEmail}
RunUsersTables ==
    {SetToBag({[id |-> i, email |-> f[i]] : i \in DOMAIN f}) :
        f \in UNION {[S -> RunEmails] : S \in SUBSET UserIds}}
\* Tables in which a row or an id occurs more than once; the two emails
\* have the same local part.
EmailSameLocalPart == <<"a", "@">>
DupUsersTables ==
    BagsOver({[id |-> i, email |-> e] :
                i \in UserIds, e \in {EmailWithAt, EmailSameLocalPart}},
             MaxUsers)
DupProjectsTables ==
    BagsOver({[id |-> i, user_id |-> o] :
                i \in ProjectIds, o \in {1, MaxUsers}},
             MaxProjects)
AllWithAt == SetToBag({[id |-> i, email |-> EmailWithAt] : i \in UserIds})
FirstNoAt == SetToBag({[id |-> 1, email |-> EmailNoAt]})
AllOwnedByFirst == SetToBag({[id |-> i, user_id |-> 1] : i \in ProjectIds})
OwnedByMatching == SetToBag({[id |-> i, user_id |-> i] : i \in ProjectIds})

\* The destination before the run: absent, or left by an earlier run.
PriorDests ==
    {NoTable,
     Table(EvalAggregated(AllWithAt, OwnedByMatching))}

\* The statements that reach the engine or the database; entering the write
\* stage (line 178) is none of them.
Stages ==
    {"initialize_spark", "read_source_users", "read_source_projects",
     "apply_expression_mask_data", "apply_joiner_user_projects",
     "apply_aggregator_project_count", "write_table_exists", "write_drop",
     "write_create", "write_scan", "write_insert", "write_schema"}
SinkStages ==
    {"write_table_exists", "write_drop", "write_create", "write_scan",
     "write_insert", "write_schema"}
\* The statements that run a job over the plan of the join.
JobStages ==
    {"apply_joiner_user_projects", "apply_aggregator_project_count",
     "write_scan"}

RunInit ==
    /\ pc = [r \in Runs |-> "initialize_spark"]
    /\ engine = [r \in Runs |-> "none"]
    /\ outcome = [r \in Runs |-> "running"]
    /\ failedAt = [r \in Runs |-> "none"]
    /\ log = [r \in Runs |-> <<>>]
    /\ counted = [r \in Runs |-> <<>>]
    /\ usersAtRead = [r \in Runs |-> EmptyBag]
    /\ projectsAtRead = [r \in Runs |-> EmptyBag]
    /\ scanUsers = [r \in Runs |-> EmptyBag]
    /\ scanProjects = [r \in Runs |-> EmptyBag]
    /\ scanned = [r \in Runs |-> {}]
    /\ aggregated = [r \in Runs |-> EmptyBag]
    /\ pending = [r \in Runs |-> EmptyBag]
    /\ lastWriter = 0

TIdle ==
    /\ tstage = "idle"
    /\ df_users = EmptyBag
    /\ df_projects = EmptyBag
    /\ df_masked = EmptyBag
    /\ df_joined = EmptyBag
    /\ df_aggregated = EmptyBag
    /\ df_masked_again = EmptyBag

Init ==
    /\ users \in {AllWithAt, FirstNoAt}
    /\ projects \in {AllOwnedByFirst, OwnedByMatching}
    /\ dest \in PriorDests
    /\ dest0 = dest
    /\ changes = 0
    /\ RunInit
    /\ TIdle

\* --------------------------------------------------------------- the run
Goto(r, next) == pc' = [pc EXCEPT ![r] = next]
Logged(r, stage) == log' = [log EXCEPT ![r] = Append(@, stage)]
Counted(r, n) == counted' = [counted EXCEPT ![r] = Append(@, n)]

\* A statement raises: the stage's handler logs and re-raises, the run's
\* handler (lines 232-234) logs and re-raises, control reaches finally.
Raise(r) ==
    /\ outcome' = [outcome EXCEPT ![r] = "failure"]
    /\ failedAt' = [failedAt EXCEPT ![r] = pc[r]]
    /\ Goto(r, "finally")

\* write.jdbc returns, lines 188 and 230 log success, control reaches finally.
Returns(r) ==
    /\ outcome' = [outcome EXCEPT ![r] = "success"]
    /\ lastWriter' = r
    /\ Goto(r, "finally")

\* initialize_spark("wkf_SpecForge_Analytics"), line 208.
InitializeSpark(r) ==
    /\ pc[r] = "initialize_spark"
    /\ engine' = [engine EXCEPT ![r] = "started"]
    /\ Logged(r, "initialize_spark")
    /\ Goto(r, "read_source_users")
    /\ UNCHANGED <<srcvars, dest, dest0, lastWriter, outcome, failedAt,
                   counted, usersAtRead, projectsAtRead, scanvars, aggregated,
                   pending, tvars>>

\* read_source_users: builds the plan; df_users.count() scans public.users.
ReadSourceUsers(r) ==
    /\ pc[r] = "read_source_users"
    /\ usersAtRead' = [usersAtRead EXCEPT ![r] = users]
    /\ Logged(r, "read_source_users")
    /\ Counted(r, BagCardinality(SelectUsers(users)))
    /\ Goto(r, "read_source_projects")
    /\ UNCHANGED <<srcvars, dest, dest0, lastWriter, engine, outcome,
                   failedAt, projectsAtRead, scanvars, aggregated, pending,
                   tvars>>

\* read_source_projects: builds the plan; count() scans public.projects.
ReadSourceProjects(r) ==
    /\ pc[r] = "read_source_projects"
    /\ projectsAtRead' = [projectsAtRead EXCEPT ![r] = projects]
    /\ Logged(r, "read_source_projects")
    /\ Counted(r, BagCardinality(SelectProjects(projects)))
    /\ Goto(r, "apply_expression_mask_data")
    /\ UNCHANGED <<srcvars, dest, dest0, lastWriter, engine, outcome,
                   failedAt, usersAtRead, scanvars, aggregated, pending,
                   tvars>>

\* apply_expression_mask_data: extends the plan, runs no action.
ApplyMask(r) ==
    /\ pc[r] = "apply_expression_mask_data"
    /\ Logged(r, "apply_expression_mask_data")
    /\ Goto(r, "apply_joiner_user_projects")
    /\ UNCHANGED <<srcvars, dest, dest0, lastWriter, engine, outcome,
                   failedAt, counted, usersAtRead, projectsAtRead, scanvars,
                   aggregated, pending, tvars>>

\* A job over the plan of the join scans public.users and public.projects
\* with two separate queries, in either order and in no common transaction.
ScanUsers(r) ==
    /\ pc[r] \in JobStages
    /\ "users" \notin scanned[r]
    /\ scanUsers' = [scanUsers EXCEPT ![r] = users]
    /\ scanned' = [scanned EXCEPT ![r] = @ \cup {"users"}]
    /\ UNCHANGED <<srcvars, dest, dest0, lastWriter, pc, engine, outcome,
                   failedAt, log, counted, usersAtRead, projectsAtRead,
                   scanProjects, aggregated, pending, tvars>>

ScanProjects(r) ==
    /\ pc[r] \in JobStages
    /\ "projects" \notin scanned[r]
    /\ scanProjects' = [scanProjects EXCEPT ![r] = projects]
    /\ scanned' = [scanned EXCEPT ![r] = @ \cup {"projects"}]
    /\ UNCHANGED <<srcvars, dest, dest0, lastWriter, pc, engine, outcome,
                   failedAt, log, counted, usersAtRead, projectsAtRead,
                   scanUsers, aggregated, pending, tvars>>

\* apply_joiner_user_projects: df_joined.count() evaluates the plan over
\* what its two scans found.
ApplyJoiner(r) ==
    /\ pc[r] = "apply_joiner_user_projects"
    /\ scanned[r] = {"users", "projects"}
    /\ Logged(r, "apply_joiner_user_projects")
    /\ Counted(r, BagCardinality(EvalJoined(scanUsers[r], scanProjects[r])))
    /\ scanned' = [scanned EXCEPT ![r] = {}]
    /\ Goto(r, "apply_aggregator_project_count")
    /\ UNCHANGED <<srcvars, dest, dest0, lastWriter, engine, outcome,
                   failedAt, usersAtRead, projectsAtRead, scanUsers,
                   scanProjects, aggregated, pending, tvars>>

\* apply_aggregator_project_count: df_aggregated.count() evaluates the plan.
ApplyAggregator(r) ==
    /\ pc[r] = "apply_aggregator_project_count"
    /\ scanned[r] = {"users", "projects"}
    /\ Logged(r, "apply_aggregator_project_count")
    /\ Counted(r, BagCardinality(EvalAggregated(scanUsers[r], scanProjects[r])))
    /\ scanned' = [scanned EXCEPT ![r] = {}]
    /\ Goto(r, "write_target_user_project_analytics")
    /\ UNCHANGED <<srcvars, dest, dest0, lastWriter, engine, outcome,
                   failedAt, usersAtRead, projectsAtRead, scanUsers,
                   scanProjects, aggregated, pending, tvars>>

\* ------------------------------------------------------- the sink write
\* df_final.write.jdbc(table, mode="overwrite"): the JDBC writer looks the
\* table up, drops and re-creates it when it exists (no truncate option is
\* set), evaluates the plan, inserts the rows partition by partition, each
\* partition committed on its own, and resolves the table's schema before it
\* returns.  None of this is one transaction.

\* write_target_user_project_analytics is entered: line 178 logs the write
\* stage before write.jdbc is called; nothing here reaches the database.
WriteTarget(r) ==
    /\ pc[r] = "write_target_user_project_analytics"
    /\ Logged(r, "write_target_user_project_analytics")
    /\ Goto(r, "write_table_exists")
    /\ UNCHANGED <<srcvars, dest, dest0, lastWriter, engine, outcome,
                   failedAt, counted, usersAtRead, projectsAtRead, scanvars,
                   aggregated, pending, tvars>>

\* The first statement of write.jdbc: the writer asks whether the table
\* exists.
WriteTableExistsMutAppend(r) ==
    /\ pc[r] = "write_table_exists"
    /\ Goto(r, IF dest.exists THEN "write_scan" ELSE "write_create")
    /\ UNCHANGED <<srcvars, dest, dest0, lastWriter, engine, outcome,
                   failedAt, log, counted, usersAtRead, projectsAtRead,
                   scanvars, aggregated, pending, tvars>>

WriteTableExists(r) ==
    /\ pc[r] = "write_table_exists"
    /\ Goto(r, IF dest.exists THEN "write_drop" ELSE "write_create")
    /\ UNCHANGED <<srcvars, dest, dest0, lastWriter, engine, outcome,
                   failedAt, log, counted, usersAtRead, projectsAtRead,
                   scanvars, aggregated, pending, tvars>>

\* DROP TABLE: an error when the table is no longer there.
WriteDropTable(r) ==
    /\ pc[r] = "write_drop"
    /\ IF dest.exists
       THEN /\ dest' = NoTable
            /\ Goto(r, "write_create")
            /\ UNCHANGED <<outcome, failedAt>>
       ELSE /\ Raise(r)
            /\ UNCHANGED dest
    /\ UNCHANGED <<srcvars, dest0, lastWriter, engine, log, counted,
                   usersAtRead, projectsAtRead, scanvars, aggregated, pending,
                   tvars>>

\* CREATE TABLE: an error when the table is already there.
WriteCreateTable(r) ==
    /\ pc[r] = "write_create"
    /\ IF ~dest.exists
       THEN /\ dest' = Table(EmptyBag)
            /\ Goto(r, "write_scan")
            /\ UNCHANGED <<outcome, failedAt>>
       ELSE /\ Raise(r)
            /\ UNCHANGED dest
    /\ UNCHANGED <<srcvars, dest0, lastWriter, engine, log, counted,
                   usersAtRead, projectsAtRead, scanvars, aggregated, pending,
                   tvars>>

\* The write evaluates the plan of df_final over what its two scans found.
WriteScan(r) ==
    /\ pc[r] = "write_scan"
    /\ scanned[r] = {"users", "projects"}
    /\ aggregated' = [aggregated EXCEPT ![r] =
                        EvalAggregated(scanUsers[r], scanProjects[r])]
    /\ pending' = [pending EXCEPT ![r] =
                        EvalAggregated(scanUsers[r], scanProjects[r])]
    /\ scanned' = [scanned EXCEPT ![r] = {}]
    /\ Goto(r, IF EvalAggregated(scanUsers[r], scanProjects[r]) = EmptyBag
               THEN "write_schema" ELSE "write_insert")
    /\ UNCHANGED <<srcvars, dest, dest0, lastWriter, engine, outcome,
                   failedAt, log, counted, usersAtRead, projectsAtRead,
                   scanUsers, scanProjects, tvars>>

\* One partition's rows are inserted and committed; an error when the table
\* is not there.
WriteInsertPartition(r) ==
    /\ pc[r] = "write_insert"
    /\ \E part \in SubBag(pending[r]) \ {EmptyBag} :
        IF dest.exists
        THEN /\ dest' = [dest EXCEPT !.rows = @ (+) part]
             /\ pending' = [pending EXCEPT ![r] = @ (-) part]
             /\ Goto(r, IF part = pending[r]
                        THEN "write_schema" ELSE "write_insert")
             /\ UNCHANGED <<outcome, failedAt>>
        ELSE /\ Raise(r)
             /\ UNCHANGED <<dest, pending>>
    /\ UNCHANGED <<srcvars, dest0, lastWriter, engine, log, counted,
                   usersAtRead, projectsAtRead, scanvars, aggregated, tvars>>

\* Every partition is in: the writer resolves the schema of the table it
\* wrote (one more query, an error when the table is not there), and
\* write.jdbc returns.
WriteResolveSchema(r) ==
    /\ pc[r] = "write_schema"
    /\ IF dest.exists
       THEN /\ Returns(r)
            /\ UNCHANGED failedAt
       ELSE /\ Raise(r)
            /\ UNCHANGED lastWriter
    /\ UNCHANGED <<srcvars, dest, dest0, engine, log, counted, usersAtRead,
                   projectsAtRead, scanvars, aggregated, pending, tvars>>

\* Any statement that reaches the engine or the database can raise
\* (session start, connection, query or task failure).
FailMutSwallow(r) ==
    /\ pc[r] \in Stages
    /\ failedAt' = [failedAt EXCEPT ![r] = pc[r]]
    /\ outcome' = [outcome EXCEPT ![r] = "failure"]
    /\ Goto(r, IF pc[r] \in SinkStages
               THEN "finally" ELSE "write_target_user_project_analytics")
    /\ UNCHANGED <<srcvars, dest, dest0, lastWriter, engine, log, counted,
                   usersAtRead, projectsAtRead, scanvars, aggregated, pending,
                   tvars>>

Fail(r) ==
    /\ pc[r] \in Stages
    /\ Raise(r)
    /\ UNCHANGED <<srcvars, dest, dest0, lastWriter, engine, log, counted,
                   usersAtRead, projectsAtRead, scanvars, aggregated, pending,
                   tvars>>

\* finally (lines 235-238): if spark: spark.stop(), then the stop is logged.
\* stop() reaches the engine and can raise like any other call: its error
\* leaves finally in place of the return or of the error of the try body, the
\* stop is not logged and the session is left as it was, not known stopped.
Finally(r) ==
    /\ pc[r] = "finally"
    /\ \/ /\ engine' = [engine EXCEPT ![r] =
                            IF @ = "started" THEN "stopped" ELSE @]
          /\ UNCHANGED <<outcome, failedAt>>
       \/ /\ engine[r] = "started"
          /\ outcome' = [outcome EXCEPT ![r] = "failure"]
          /\ failedAt' = [failedAt EXCEPT ![r] =
                            IF @ = "none" THEN "finally" ELSE @]
          /\ UNCHANGED engine
    /\ Goto(r, "done")
    /\ UNCHANGED <<srcvars, dest, dest0, lastWriter, log, counted, usersAtRead,
                   projectsAtRead, scanvars, aggregated, pending, tvars>>

\* ----------------------------------------------------------- environment
\* Another client changes a source table by id: DELETE of the rows with the
\* id, UPDATE of them, or INSERT of a row with an id that is not there.
ChangeUsers ==
    /\ changes < MaxChanges
    /\ \E i \in UserIds :
        \E new \in {EmptyBag} \cup
                   {SetToBag({[id |-> i, email |-> e]}) : e \in RunEmails} :
            /\ users' =
                Restrict(users, {u \in BagToSet(users) : u.id # i}) (+) new
            /\ users' # users
    /\ changes' = changes + 1
    /\ UNCHANGED <<projects, dest, dest0, lastWriter, runvars, tvars>>

ChangeProjects ==
    /\ changes < MaxChanges
    /\ \E i \in ProjectIds :
        \E new \in {EmptyBag} \cup
                   {SetToBag({[id |-> i, user_id |-> o]}) : o \in OwnerIds} :
            /\ projects' =
                Restrict(projects, {q \in BagToSet(projects) : q.id # i})
                    (+) new
            /\ projects' # projects
    /\ changes' = changes + 1
    /\ UNCHANGED <<users, dest, dest0, lastWriter, runvars, tvars>>

RunStep(r) ==
    \/ InitializeSpark(r)
    \/ ReadSourceUsers(r)
    \/ ReadSourceProjects(r)
    \/ ApplyMask(r)
    \/ ScanUsers(r)
    \/ ScanProjects(r)
    \/ ApplyJoiner(r)
    \/ ApplyAggregator(r)
    \/ WriteTarget(r)
    \/ WriteTableExists(r)
    \/ WriteDropTable(r)
    \/ WriteCreateTable(r)
    \/ WriteScan(r)
    \/ WriteInsertPartition(r)
    \/ WriteResolveSchema(r)
    \/ Fail(r)
    \/ Finally(r)

\* One run of run_specforge_analytics_etl, with other clients changing the
\* sources.
Next ==
    \/ RunStep(1)
    \/ ChangeUsers
    \/ ChangeProjects

Spec == Init /\ [][Next]_vars

\* Several runs against the same destination, each its own process.
ConcInit ==
    /\ users = AllWithAt
    /\ projects = AllOwnedByFirst
    /\ dest \in PriorDests
    /\ dest0 = dest
    /\ changes = 0
    /\ RunInit
    /\ TIdle

ConcNext ==
    \/ \E r \in Runs : RunStep(r)
    \/ ChangeUsers
    \/ ChangeProjects

ConcSpec == ConcInit /\ [][ConcNext]_vars

\* ------------------------------------------------- the transforms alone
\* The chain of lines 222-226 over given DataFrame contents.
TInit ==
    /\ \/ /\ df_users \in {SelectUsers(u) : u \in UsersTables}
          /\ df_projects = EmptyBag
       \/ /\ df_users \in {SelectUsers(u) : u \in RunUsersTables}
          /\ df_projects \in {SelectProjects(p) : p \in ProjectsTables}
       \/ /\ df_users \in {SelectUsers(u) : u \in DupUsersTables}
          /\ df_projects \in {SelectProjects(p) : p \in DupProjectsTables}
    /\ tstage = "apply_expression_mask_data"
    /\ df_masked = EmptyBag
    /\ df_joined = EmptyBag
    /\ df_aggregated = EmptyBag
    /\ df_masked_again = EmptyBag
    /\ users = EmptyBag
    /\ projects = EmptyBag
    /\ dest = NoTable
    /\ dest0 = NoTable
    /\ changes = 0
    /\ RunInit

TMask ==
    /\ tstage = "apply_expression_mask_data"
    /\ df_masked' = ApplyExpressionMaskData(df_users)
    /\ tstage' = "apply_joiner_user_projects"
    /\ UNCHANGED <<df_users, df_projects, df_joined, df_aggregated,
                   df_masked_again>>
    /\ UNCHANGED <<srcvars, dest, dest0, lastWriter, runvars>>

TJoin ==
    /\ tstage = "apply_joiner_user_projects"
    /\ df_joined' = ApplyJoinerUserProjects(df_masked, df_projects)
    /\ tstage' = "apply_aggregator_project_count"
    /\ UNCHANGED <<df_users, df_projects, df_masked, df_aggregated,
                   df_masked_again>>
    /\ UNCHANGED <<srcvars, dest, dest0, lastWriter, runvars>>

TAggregate ==
    /\ tstage = "apply_aggregator_project_count"
    /\ df_aggregated' = ApplyAggregatorProjectCount(df_joined)
    /\ tstage' = "done"
    /\ UNCHANGED <<df_users, df_projects, df_masked, df_joined,
                   df_masked_again>>
    /\ UNCHANGED <<srcvars, dest, dest0, lastWriter, runvars>>

\* The expression applied once more to the same input.
TMaskAgain ==
    /\ tstage = "done"
    /\ df_masked_again' = ApplyExpressionMaskData(df_users)
    /\ tstage' = "masked_again"
    /\ UNCHANGED <<df_users, df_projects, df_masked, df_joined,
                   df_aggregated>>
    /\ UNCHANGED <<srcvars, dest, dest0, lastWriter, runvars>>

TNext == TMask \/ TJoin \/ TAggregate \/ TMaskAgain

TransformSpec == TInit /\ [][TNext]_vars

\* ---------------------------------------------------------------- claims
\* The email is a string in which '@' occurs; NULL is no string.
HasAt(e) == e # <<"NULL">> /\ \E n \in 1..Len(e) : e[n] = "@"

\* The email is a string in which no '@' occurs.
NoAt(e) == e # <<"NULL">> /\ \A n \in 1..Len(e) : e[n] # "@"

\* The characters of e strictly before its first '@'.
LocalPart(e) ==
    LET n == CHOOSE k \in 1..Len(e) :
                e[k] = "@" /\ \A m \in 1..(k - 1) : e[m] # "@"
    IN  SubSeq(e, 1, n - 1)

Matching(u, p) == p.p_user_id # NullId /\ p.p_user_id = u.id

\* The number of rows of bag B, copies counted, that are in S.
Rows(B, S) ==
    BagCardinality([r \in S \cap BagToSet(B) |-> CopiesIn(r, B)])

\* The number of pairs of a row of U and a row of P, copies counted, that
\* are in S.
Pairs(U, P, S) ==
    BagCardinality(
        [x \in S \cap (BagToSet(U) \X BagToSet(P)) |->
            CopiesIn(x[1], U) * CopiesIn(x[2], P)])

\* The rows of the DataFrames of the chain.
UserRows == BagToSet(df_users)
ProjectRows == BagToSet(df_projects)
MaskedRows == BagToSet(df_masked)
JoinedRows == BagToSet(df_joined)
AggregatedRows == BagToSet(df_aggregated)

\* C1: after a run that completed successfully the destination holds exactly
\* the aggregated rows that run computed, each once, and nothing it held
\* before.
C1_OverwriteExact ==
    outcome[1] = "success" =>
        /\ dest.exists
        /\ dest.rows = aggregated[1]
        /\ \A row \in BagToSet(dest0.rows) :
            ~BagIn(row, aggregated[1]) => ~BagIn(row, dest.rows)

C1_Witness ==
    /\ outcome[1] = "success"
    /\ aggregated[1] # EmptyBag
    /\ \E row \in BagToSet(dest0.rows) : ~BagIn(row, aggregated[1])

\* C2: the aggregation has exactly one row per distinct (user_id,
\* MASKED_EMAIL) of the joined rows; its TOTAL_PROJECTS is the number of
\* joined rows of that group, equal rows counted as often as they occur,
\* and the totals of a user id add up to the number of pairs of a row of
\* that user and a matching project row.
SameGroup(a, j) ==
    j.user_id = a.USER_ID /\ j.MASKED_EMAIL = a.MASKED_EMAIL

RECURSIVE SumTotals(_)
SumTotals(S) ==
    IF S = {} THEN 0
    ELSE LET a == CHOOSE x \in S : TRUE
         IN  a.TOTAL_PROJECTS + SumTotals(S \ {a})

C2_CountPerGroup ==
    tstage \in {"done", "masked_again"} =>
        /\ \A j \in BagToSet(df_joined) :
            Rows(df_aggregated, {a \in AggregatedRows : SameGroup(a, j)}) = 1
        /\ \A a \in BagToSet(df_aggregated) :
            /\ \E j \in BagToSet(df_joined) : SameGroup(a, j)
            /\ a.TOTAL_PROJECTS =
                Rows(df_joined, {j \in JoinedRows : SameGroup(a, j)})
        /\ \A i \in UserIds :
            SumTotals({a \in BagToSet(df_aggregated) : a.USER_ID = i}) =
                Pairs(df_users, df_projects,
                      {y \in UserRows \X ProjectRows :
                        y[1].id = i /\ Matching(y[1], y[2])})

\* A group whose count exceeds its number of distinct project ids, from a
\* project row that occurs twice.
C2_Witness ==
    /\ tstage = "done"
    /\ \E p \in BagToSet(df_projects) : CopiesIn(p, df_projects) > 1
    /\ \E a \in BagToSet(df_aggregated) :
        a.TOTAL_PROJECTS >
            Cardinality({j.project_id :
                j \in {x \in BagToSet(df_joined) : SameGroup(a, x)}})

\* C3: the join is an inner equijoin: a user without a matching project has
\* no joined and no aggregated row, a project id whose rows have a NULL
\* owner or an owner that is no user is in no joined row, and every pair of
\* a user row and a matching project row has exactly one joined row: the
\* joined rows of a user id and a project id are as many as those pairs.
C3_InnerJoin ==
    /\ tstage \in {"apply_aggregator_project_count", "done", "masked_again"} =>
        /\ \A u \in BagToSet(df_users) :
            (\A p \in BagToSet(df_projects) : ~Matching(u, p)) =>
                \A j \in BagToSet(df_joined) : j.user_id # u.id
        /\ \A q \in ProjectIds :
            (\A p \in BagToSet(df_projects) : \A u \in BagToSet(df_users) :
                p.project_id = q => ~Matching(u, p)) =>
                \A j \in BagToSet(df_joined) : j.project_id # q
        /\ \A i \in UserIds : \A q \in ProjectIds :
            Rows(df_joined,
                 {j \in JoinedRows : j.user_id = i /\ j.project_id = q}) =
                Pairs(df_users, df_projects,
                      {y \in UserRows \X ProjectRows :
                        /\ y[1].id = i
                        /\ y[2].project_id = q
                        /\ Matching(y[1], y[2])})
        /\ BagCardinality(df_joined) =
            Pairs(df_users, df_projects,
                  {y \in UserRows \X ProjectRows : Matching(y[1], y[2])})
    /\ tstage \in {"done", "masked_again"} =>
        \A u \in BagToSet(df_users) :
            (\A p \in BagToSet(df_projects) : ~Matching(u, p)) =>
                \A a \in BagToSet(df_aggregated) : a.USER_ID # u.id

C3_Witness ==
    /\ tstage = "done"
    /\ \E u \in BagToSet(df_users) :
        \A p \in BagToSet(df_projects) : ~Matching(u, p)
    /\ \E p \in BagToSet(df_projects) : p.p_user_id = NullId
    /\ \E p \in BagToSet(df_projects) :
        p.p_user_id # NullId /\
        \A u \in BagToSet(df_users) : u.id # p.p_user_id
    /\ df_joined # EmptyBag

\* C4: a run that has ended never leaves its engine started: the engine is
\* stopped whenever it was started, whichever stage failed or none. Violated
\* by a run whose spark.stop() raises in finally: the run ends, raising, with
\* the session started and not stopped.
C4_EngineStopped ==
    pc[1] = "done" =>
        /\ engine[1] # "started"
        /\ failedAt[1] # "initialize_spark" => engine[1] = "stopped"

\* C5: a failure before the sink stage raises, invokes no later stage, never
\* attempts the write and leaves the destination as it was before the run.
StageOrder ==
    <<"initialize_spark", "read_source_users", "read_source_projects",
      "apply_expression_mask_data", "apply_joiner_user_projects",
      "apply_aggregator_project_count">>

C5_FailBeforeSink ==
    \A n \in 1..Len(StageOrder) :
        failedAt[1] = StageOrder[n] =>
            /\ outcome[1] = "failure"
            /\ pc[1] \in {"finally", "done"}
            /\ log[1] = SubSeq(StageOrder, 1, n - 1)
            /\ dest = dest0

C5_Witness ==
    /\ failedAt[1] = "apply_aggregator_project_count"
    /\ pc[1] = "done"
    /\ dest0.exists
    /\ dest0.rows # EmptyBag

\* C6: when the sink write fails the destination's rows are the rows the
\* prior run left: none removed, none of the new rows added.
C6_NoPartialCommit ==
    failedAt[1] \in SinkStages => dest.rows = dest0.rows

\* C7: masking is 1:1: the masked rows of a user id are as many as the user
\* rows of that id, a user whose email has an '@' gets one row per copy with
\* user_id = id and MASKED_EMAIL = the characters before the first '@' and
\* "@***.com", and where the id occurs once that is the only row of the id;
\* no row is dropped or added, no other field is kept, and a second
\* application gives the same rows.
Masked(u) ==
    [user_id |-> u.id,
     MASKED_EMAIL |->
        LocalPart(u.email) \o <<"@", "*", "*", "*", ".", "c", "o", "m">>]

C7_Masking ==
    /\ tstage # "apply_expression_mask_data" =>
        /\ BagCardinality(df_masked) = BagCardinality(df_users)
        /\ \A m \in BagToSet(df_masked) :
            /\ DOMAIN m = {"user_id", "MASKED_EMAIL"}
            /\ \E u \in BagToSet(df_users) : u.id = m.user_id
        /\ \A i \in UserIds :
            Rows(df_masked, {m \in MaskedRows : m.user_id = i}) =
                Rows(df_users, {u \in UserRows : u.id = i})
        /\ \A u \in BagToSet(df_users) :
            HasAt(u.email) =>
                /\ CopiesIn(Masked(u), df_masked) >= CopiesIn(u, df_users)
                /\ Rows(df_users, {v \in UserRows : v.id = u.id}) = 1 =>
                    /\ Rows(df_masked,
                            {m \in MaskedRows : m.user_id = u.id}) = 1
                    /\ \A m \in BagToSet(df_masked) :
                        m.user_id = u.id => m = Masked(u)
    /\ tstage = "masked_again" => df_masked_again = df_masked

C7_Witness ==
    /\ tstage = "masked_again"
    /\ \E u \in BagToSet(df_users) :
        /\ Len(u.email) = MaxEmailLen
        /\ u.email[2] = "@"
        /\ u.email[MaxEmailLen] = "@"
    /\ \E u \in BagToSet(df_users) : HasAt(u.email) /\ u.email[1] # "@"

\* C8: when several runs against the same destination have all finished
\* successfully, the destination holds exactly the aggregated rows of the run
\* whose write returned last.
C8_LastWriterWins ==
    (\A r \in Runs : outcome[r] = "success") =>
        /\ dest.exists
        /\ BagToSet(dest.rows) = BagToSet(aggregated[lastWriter])

\* C9: the rows a successful run wrote are derived from the contents the
\* source tables had when read_source_users and read_source_projects ran.
C9_SnapshotAtRead ==
    outcome[1] = "success" =>
        dest.rows = EvalAggregated(usersAtRead[1], projectsAtRead[1])

\* C10: a user row whose email is a string without '@' has one behaviour,
\* the same for every such row of every table: the stage does not fail, the
\* row is kept, as often as it occurs, with an empty local part,
\* MASKED_EMAIL = "@***.com", and no character of the email is emitted.
EmptyLocalPart(u) ==
    [user_id |-> u.id,
     MASKED_EMAIL |-> <<"@", "*", "*", "*", ".", "c", "o", "m">>]

C10_NoAtEmail ==
    tstage # "apply_expression_mask_data" =>
        /\ \A i \in UserIds :
            Rows(df_masked, {m \in MaskedRows : m.user_id = i}) =
                Rows(df_users, {u \in UserRows : u.id = i})
        /\ \A u \in BagToSet(df_users) :
            NoAt(u.email) =>
                /\ CopiesIn(EmptyLocalPart(u), df_masked) >=
                    CopiesIn(u, df_users)
                /\ Rows(df_users, {v \in UserRows : v.id = u.id}) = 1 =>
                    \A m \in BagToSet(df_masked) :
                        m.user_id = u.id => m = EmptyLocalPart(u)

C10_Witness ==
    /\ tstage = "apply_joiner_user_projects"
    /\ \E u \in BagToSet(df_users) :
        NoAt(u.email) /\ Len(u.email) = MaxEmailLen
    /\ \E u \in BagToSet(df_users) : u.email = <<>>
    /\ BagCardinality(df_masked) = MaxUsers

====
